---- MODULE Spec2Model ----
(***************************************************************************)
(* Model of the expensify client: the App component (authentication       *)
(* observer, store subscription, expense list state, add/edit form and    *)
(* its store writes) and the ExpenseList component (filter fields,        *)
(* derived category list, filtered list and total, delete dialog).        *)
(*                                                                         *)
(* Representation of JavaScript values:                                    *)
(*   - a number is a record [nan, v]: NaN, or the integer v;               *)
(*   - the text of an amount field is a sequence of one-character strings, *)
(*     the empty sequence being the empty (falsy) string '';               *)
(*   - an instant is a number of ticks, TicksPerDay ticks to the UTC day;  *)
(*   - the text of a date field is Iso(d), the 'YYYY-MM-DD' string of      *)
(*     calendar day number d, or EmptyDate, the empty (falsy) string '';   *)
(*     a stored Date is Timestamp(t), the store's timestamp of instant t;  *)
(*   - a category label is a string; an array is a sequence; the text of   *)
(*     the category input is a sequence of pieces, each a space or a word. *)
(***************************************************************************)
EXTENDS Integers, Sequences, FiniteSets, TLC

VARIABLES
    user,                      \* App state: user (a uid, or NoUser)
    currentUser,               \* auth.currentUser of the identity provider
    store,                     \* the 'expenses' collection: set of documents
    nextId,                    \* the next document id the collection generates
    listeners,                 \* onSnapshot listeners never unsubscribed: set of uids
    notify,                    \* listeners with a snapshot notification to deliver
    writes,                    \* number of store writes handleAddExpense has sent
    pending,                   \* store writes of handleAddExpense awaiting their outcome
    expenses,                  \* App state: expenses (prop of ExpenseList)
    amount,                    \* App state: text of the amount field
    description,               \* App state: text of the description field
    date,                      \* App state: value of the date field
    categoryInput,             \* App state: text of the new-category field
    selectedCategories,        \* App state: labels chosen for the expense
    editId,                    \* App state: id of the expense being edited, or NoEdit
    editOpen,                  \* App state: the edit dialog is open
    selectedFilterCategories,  \* ExpenseList state
    filterStartDate,           \* ExpenseList state
    filterEndDate,             \* ExpenseList state
    filterAmountMin,           \* ExpenseList state
    filterAmountMax,           \* ExpenseList state
    deleteDialogOpen,          \* ExpenseList state
    expenseToDelete,           \* ExpenseList state: an expense, or NoExpense
    availableCategories,       \* ExpenseList useMemo value
    filteredExpenses,          \* ExpenseList useMemo value
    totalAmount,               \* ExpenseList useMemo value
    totalLabel,                \* ExpenseList: the text shown after "Total:"
    now,                       \* the clock: the instant new Date() reads
    utcOffset,                 \* the user's time zone: local time minus UTC, in ticks
    deleteGesture              \* the user's last gesture on the delete controls

sessionVars == <<user, currentUser, store, nextId, listeners, notify, writes>>
formVars == <<amount, description, date, categoryInput, selectedCategories,
              editId, editOpen>>
filterVars == <<selectedFilterCategories, filterStartDate, filterEndDate,
                filterAmountMin, filterAmountMax>>
dialogVars == <<deleteDialogOpen, expenseToDelete, deleteGesture>>
memoVars == <<availableCategories, filteredExpenses, totalAmount, totalLabel>>
clockVars == <<now, utcOffset>>
vars == <<sessionVars, pending, expenses, formVars, filterVars, dialogVars,
          memoVars, clockVars>>

----------------------------------------------------------------------------
(* Bounds and input domains *)

MaxExpenses == 2                \* longest expense list / most documents in the store
MaxWrites == 2                  \* most store writes handleAddExpense sends

Users == {"u1", "u2"}
NoUser == "null"
\* the null of editId and of expenseToDelete
NoEdit == 0
NoExpense == [id |-> 0]

Categories == {"food", "travel"}
AmountValues == {50, 100}
ExpenseDays == {5, 20}
FilterDays == {5, 20}
AmountTexts == {<<>>, <<"6", "0">>, <<"1", "0", "0">>}

\* the clock: two readings a day on two days of the current month
DayParts == {0, 1}
ClockDays == {5, 20}
\* time zones half a day west of UTC, at UTC and half a day east of it
UtcOffsets == {-1, 0, 1}
\* the first days of the previous, the current and the next month
MonthFirstDays == {-30, 1, 32}

----------------------------------------------------------------------------
(* JavaScript numbers *)

NaN == [nan |-> TRUE, v |-> 0]
Num(n) == [nan |-> FALSE, v |-> n]

\* a < b and a > b: false whenever an operand is NaN
JsLess(a, b) == ~a.nan /\ ~b.nan /\ a.v < b.v
JsGreater(a, b) == ~a.nan /\ ~b.nan /\ a.v > b.v
JsAdd(a, b) == IF a.nan \/ b.nan THEN NaN ELSE Num(a.v + b.v)

IsDigit(c) == c \in {"0", "1", "2", "3", "4", "5", "6", "7", "8", "9"}
DigitValue(c) ==
    CASE c = "0" -> 0 [] c = "1" -> 1 [] c = "2" -> 2 [] c = "3" -> 3 [] c = "4" -> 4
      [] c = "5" -> 5 [] c = "6" -> 6 [] c = "7" -> 7 [] c = "8" -> 8 [] c = "9" -> 9

RECURSIVE SkipSpaces(_)
SkipSpaces(t) ==
    IF t # <<>> /\ Head(t) = " " THEN SkipSpaces(Tail(t)) ELSE t

\* the value of the longest prefix of digits of t, continuing from acc
RECURSIVE LeadingDigits(_, _)
LeadingDigits(t, acc) ==
    IF t # <<>> /\ IsDigit(Head(t))
    THEN LeadingDigits(Tail(t), 10 * acc + DigitValue(Head(t)))
    ELSE acc

\* parseFloat on texts made of spaces, a sign, digits and other characters:
\* leading spaces are skipped, the longest numeric prefix is converted and
\* a text with no numeric prefix gives NaN.
parseFloat(text) ==
    LET t == SkipSpaces(text)
        neg == t # <<>> /\ Head(t) = "-"
        signed == t # <<>> /\ Head(t) \in {"-", "+"}
        body == IF signed THEN Tail(t) ELSE t
    IN IF body = <<>> \/ ~IsDigit(Head(body)) THEN NaN
       ELSE IF neg THEN Num(0 - LeadingDigits(body, 0))
       ELSE Num(LeadingDigits(body, 0))

\* truthiness of a text
NonEmpty(text) == text # <<>>

DigitChar(d) ==
    CASE d = 0 -> "0" [] d = 1 -> "1" [] d = 2 -> "2" [] d = 3 -> "3" [] d = 4 -> "4"
      [] d = 5 -> "5" [] d = 6 -> "6" [] d = 7 -> "7" [] d = 8 -> "8" [] d = 9 -> "9"

\* the decimal digits of a natural number
RECURSIVE DigitsOf(_)
DigitsOf(n) ==
    IF n < 10 THEN <<DigitChar(n)>>
    ELSE DigitsOf(n \div 10) \o <<DigitChar(n % 10)>>

\* Number.prototype.toString
NumberToString(x) ==
    IF x.nan THEN <<"N", "a", "N">>
    ELSE IF x.v < 0 THEN <<"-">> \o DigitsOf(0 - x.v)
    ELSE DigitsOf(x.v)

\* a value that is no number: expenseToDelete?.amount while no expense is named
Undefined == [undefined |-> TRUE]

\* typeof number === 'number'
IsNumber(x) == "nan" \in DOMAIN x

\* wholePart.replace(/\B(?=(\d{3})+(?!\d))/g, ','): a comma goes between two
\* digits when the digits from there to the end are a multiple of three
RECURSIVE InsertCommas(_, _)
InsertCommas(w, i) ==
    IF i > Len(w) THEN <<>>
    ELSE (IF /\ i > 1
             /\ IsDigit(w[i - 1]) /\ IsDigit(w[i])
             /\ (Len(w) - i + 1) % 3 = 0
          THEN <<",", w[i]>>
          ELSE <<w[i]>>) \o InsertCommas(w, i + 1)

\* formatIndianNumber of a whole number (no decimal part)
formatIndianNumber(number) ==
    IF ~IsNumber(number) \/ number.nan THEN <<"0">>
    ELSE LET wholePart == NumberToString(number)
         IN InsertCommas(wholePart, 1)

----------------------------------------------------------------------------
(* Instants, calendar days and dates *)

TicksPerDay == Cardinality(DayParts)
Instant(day, part) == day * TicksPerDay + part
Instants == {Instant(d, p) : d \in ClockDays, p \in DayParts}

\* the calendar day of instant t in UTC, as toISOString prints it
UtcDay(t) == t \div TicksPerDay
\* the calendar day of instant t in the zone offset ticks ahead of UTC, as
\* getFullYear, getMonth and getDate read it
LocalDay(t, offset) == (t + offset) \div TicksPerDay
\* new Date(year, month, day): midnight of that calendar day in the zone
LocalMidnight(day, offset) == day * TicksPerDay - offset

\* the first day of the month that holds the day
FirstDayOfMonth(day) ==
    CHOOSE f \in MonthFirstDays :
        f <= day /\ \A g \in MonthFirstDays : g <= day => g <= f

\* the last day of the month that holds the day
LastDayOfMonth(day) ==
    (CHOOSE f \in MonthFirstDays :
        f > day /\ \A g \in MonthFirstDays : g > day => f <= g) - 1

EmptyDate == [kind |-> "empty", day |-> 0]
Iso(d) == [kind |-> "iso", day |-> d]
\* a Date value as the store holds and returns it
Timestamp(t) == [kind |-> "timestamp", day |-> UtcDay(t), part |-> t % TicksPerDay]

\* toISOString().split('T')[0]
ToISODate(t) == Iso(UtcDay(t))

\* truthiness of the value of a date field
DateSet(x) == x.kind # "empty"

\* NewDate reading a timestamp as the instant it holds
NewDateOfInstant(x) ==
    IF x.kind = "iso" THEN Num(Instant(x.day, 0))
    ELSE IF x.kind = "timestamp" THEN Num(Instant(x.day, x.part))
    ELSE NaN

\* new Date(x) as a time value in ticks: a date-only ISO string is UTC
\* midnight of that day; the empty string is an Invalid Date (NaN), and so
\* is a timestamp of the store, whose primitive value is a string that is
\* no date
NewDate(x) == IF x.kind = "iso" THEN Num(Instant(x.day, 0)) ELSE NaN

\* the useState initialiser of filterStartDate
DefaultStartDate(t, offset) ==
    ToISODate(LocalMidnight(FirstDayOfMonth(LocalDay(t, offset)), offset))

\* the useState initialiser of filterEndDate
DefaultEndDate(t) == ToISODate(t)

----------------------------------------------------------------------------
(* Sequences *)

Range(s) == {s[i] : i \in 1..Len(s)}
Includes(s, x) == \E i \in 1..Len(s) : s[i] = x
NoDuplicates(s) == \A i, j \in 1..Len(s) : s[i] = s[j] => i = j

\* exp.categories || []
CategoriesOf(exp) == IF "categories" \in DOMAIN exp THEN exp.categories ELSE <<>>

----------------------------------------------------------------------------
(* ExpenseList: derived values (useMemo bodies) *)

\* expenses.flatMap(exp => exp.categories || [])
RECURSIVE FlatMapCategories(_)
FlatMapCategories(E) ==
    IF E = <<>> THEN <<>>
    ELSE CategoriesOf(Head(E)) \o FlatMapCategories(Tail(E))

\* SetOrder without the membership test of Set.add
RECURSIVE SetOrderKeepAll(_, _)
SetOrderKeepAll(s, acc) ==
    IF s = <<>> THEN acc ELSE SetOrderKeepAll(Tail(s), Append(acc, Head(s)))

\* [...new Set(s)]: insertion order, a value already present is not added again
RECURSIVE SetOrder(_, _)
SetOrder(s, acc) ==
    IF s = <<>> THEN acc
    ELSE SetOrder(Tail(s), IF Includes(acc, Head(s)) THEN acc ELSE Append(acc, Head(s)))

DeriveAvailableCategories(E) == SetOrder(FlatMapCategories(E), <<>>)

\* hasAllCategories letting an expense with no categories field pass
hasAllCategoriesOrNone(expense, selected) ==
    \A i \in 1..Len(selected) :
        "categories" \notin DOMAIN expense \/ Includes(expense.categories, selected[i])

\* selectedFilterCategories.every(cat => expense.categories && expense.categories.includes(cat))
hasAllCategories(expense, selected) ==
    \A i \in 1..Len(selected) :
        "categories" \in DOMAIN expense /\ Includes(expense.categories, selected[i])

\* selectedFilterCategories.some(cat => expense.categories && expense.categories.includes(cat))
hasMatchingCategory(expense, selected) ==
    \E i \in 1..Len(selected) :
        "categories" \in DOMAIN expense /\ Includes(expense.categories, selected[i])

\* the category filter of ExpenseList.js
CategoryFilter(expense, selected) ==
    Len(selected) > 0 => hasAllCategories(expense, selected)

\* the category filter of the variant component
CategoryFilterVariant(expense, selected) ==
    Len(selected) > 0 => hasMatchingCategory(expense, selected)

\* DateFilter rejecting dates on a bound: <= and >= in place of < and >
DateFilterExclusive(expense, startDate, endDate) ==
    /\ ~(DateSet(startDate) /\ ~JsGreater(NewDate(expense.date), NewDate(startDate)))
    /\ ~(DateSet(endDate) /\ ~JsLess(NewDate(expense.date), NewDate(endDate)))

\* the date range filter: TRUE when the expense is not rejected
DateFilter(expense, startDate, endDate) ==
    /\ ~(DateSet(startDate) /\ JsLess(NewDate(expense.date), NewDate(startDate)))
    /\ ~(DateSet(endDate) /\ JsGreater(NewDate(expense.date), NewDate(endDate)))

\* AmountFilter rejecting amounts on a bound: <= and >= in place of < and >
AmountFilterExclusive(expense, amountMin, amountMax) ==
    /\ ~(NonEmpty(amountMin) /\ ~JsGreater(expense.amount, parseFloat(amountMin)))
    /\ ~(NonEmpty(amountMax) /\ ~JsLess(expense.amount, parseFloat(amountMax)))

\* AmountFilter converting the bounds with Number(), which reads '' as 0,
\* and comparing whether or not a bound is set
AmountFilterNumber(expense, amountMin, amountMax) ==
    LET number(text) == IF text = <<>> THEN Num(0) ELSE parseFloat(text)
    IN /\ ~JsLess(expense.amount, number(amountMin))
       /\ ~JsGreater(expense.amount, number(amountMax))

\* the amount range filter: TRUE when the expense is not rejected
AmountFilter(expense, amountMin, amountMax) ==
    /\ ~(NonEmpty(amountMin) /\ JsLess(expense.amount, parseFloat(amountMin)))
    /\ ~(NonEmpty(amountMax) /\ JsGreater(expense.amount, parseFloat(amountMax)))

\* FilterCallback returning as soon as the category filter has accepted
FilterCallbackEarlyReturn(expense, selected, startDate, endDate, amountMin, amountMax) ==
    IF Len(selected) > 0
    THEN hasAllCategories(expense, selected)
    ELSE /\ DateFilter(expense, startDate, endDate)
         /\ AmountFilter(expense, amountMin, amountMax)

\* the callback of expenses.filter in ExpenseList.js
FilterCallback(expense, selected, startDate, endDate, amountMin, amountMax) ==
    /\ CategoryFilter(expense, selected)
    /\ DateFilter(expense, startDate, endDate)
    /\ AmountFilter(expense, amountMin, amountMax)

\* the callback of expenses.filter in the variant component
FilterCallbackVariant(expense, selected, startDate, endDate, amountMin, amountMax) ==
    /\ CategoryFilterVariant(expense, selected)
    /\ DateFilter(expense, startDate, endDate)
    /\ AmountFilter(expense, amountMin, amountMax)

\* ApplyFilters putting each accepted element in front of the result
RECURSIVE ApplyFiltersReversed(_, _, _, _, _, _)
ApplyFiltersReversed(E, selected, startDate, endDate, amountMin, amountMax) ==
    IF E = <<>> THEN <<>>
    ELSE LET rest == ApplyFiltersReversed(Tail(E), selected, startDate, endDate,
                                          amountMin, amountMax)
         IN IF FilterCallback(Head(E), selected, startDate, endDate, amountMin, amountMax)
            THEN rest \o <<Head(E)>>
            ELSE rest

\* ApplyFilters scanning from the second element
ApplyFiltersFromSecond(E, selected, startDate, endDate, amountMin, amountMax) ==
    IF E = <<>> THEN <<>>
    ELSE SelectSeq(Tail(E), LAMBDA e :
             FilterCallback(e, selected, startDate, endDate, amountMin, amountMax))

\* Array.prototype.filter: the elements the callback accepts, in array order
RECURSIVE ApplyFilters(_, _, _, _, _, _)
ApplyFilters(E, selected, startDate, endDate, amountMin, amountMax) ==
    IF E = <<>> THEN <<>>
    ELSE LET rest == ApplyFilters(Tail(E), selected, startDate, endDate, amountMin, amountMax)
         IN IF FilterCallback(Head(E), selected, startDate, endDate, amountMin, amountMax)
            THEN <<Head(E)>> \o rest
            ELSE rest

RECURSIVE ApplyFiltersVariant(_, _, _, _, _, _)
ApplyFiltersVariant(E, selected, startDate, endDate, amountMin, amountMax) ==
    IF E = <<>> THEN <<>>
    ELSE LET rest == ApplyFiltersVariant(Tail(E), selected, startDate, endDate, amountMin, amountMax)
         IN IF FilterCallbackVariant(Head(E), selected, startDate, endDate, amountMin, amountMax)
            THEN <<Head(E)>> \o rest
            ELSE rest

\* filteredExpenses.reduce((sum, exp) => sum + exp.amount, 0)
RECURSIVE Reduce(_, _)
Reduce(E, sum) ==
    IF E = <<>> THEN sum ELSE Reduce(Tail(E), JsAdd(sum, Head(E).amount))

\* ComputeTotal seeded with undefined: undefined + amount is NaN, and the
\* total of no expenses is no number
ComputeTotalUnseeded(E) == Reduce(E, NaN)

\* ComputeTotal seeded with the first amount instead of 0
ComputeTotalSeeded(E) == Reduce(E, IF E = <<>> THEN Num(0) ELSE Head(E).amount)

ComputeTotal(E) == Reduce(E, Num(0))

\* Render with expenses missing from the dependencies of filteredExpenses:
\* the filtered list is computed again only when a filter field has changed
RenderOnFilterChange ==
    /\ availableCategories' = DeriveAvailableCategories(expenses')
    /\ filteredExpenses' =
          IF <<selectedFilterCategories', filterStartDate', filterEndDate',
               filterAmountMin', filterAmountMax'>>
             = <<selectedFilterCategories, filterStartDate, filterEndDate,
                 filterAmountMin, filterAmountMax>>
          THEN filteredExpenses
          ELSE ApplyFilters(expenses', selectedFilterCategories',
                            filterStartDate', filterEndDate',
                            filterAmountMin', filterAmountMax')
    /\ totalAmount' = ComputeTotal(filteredExpenses')
    /\ totalLabel' = formatIndianNumber(totalAmount')

\* one render of ExpenseList: the three useMemo values of the new state
Render ==
    /\ availableCategories' = DeriveAvailableCategories(expenses')
    /\ filteredExpenses' = ApplyFilters(expenses', selectedFilterCategories',
                                        filterStartDate', filterEndDate',
                                        filterAmountMin', filterAmountMax')
    /\ totalAmount' = ComputeTotal(filteredExpenses')
    /\ totalLabel' = formatIndianNumber(totalAmount')

----------------------------------------------------------------------------
(* Documents of the 'expenses' collection *)

\* the arrays selectedCategories can hold: labels in click order
CategoryLists == {<<"food">>, <<"travel">>, <<"food", "travel">>}

DateTexts == {EmptyDate} \cup {Iso(d) : d \in FilterDays}

ExpenseFields ==
    [amount : {Num(a) : a \in AmountValues},
     date : {Iso(d) : d \in ExpenseDays},
     categories : CategoryLists]

\* { id: doc.id, ...doc.data() }
Document(id, data) == [id |-> id] @@ data

\* the data of an expense the user recorded at instant t with the fields f
ExpenseData(uid, f, t) ==
    [description |-> "lunch", amount |-> f.amount, date |-> f.date,
     categories |-> f.categories, uid |-> uid, createdAt |-> Timestamp(t)]

\* the time of day a stored date carries
PartOf(x) == IF x.kind = "timestamp" THEN x.part ELSE 0

\* orderBy('date', 'desc'): the store orders values of different types by
\* type, strings after timestamps, so descending order lists the ISO
\* strings first, later days first, then the timestamps, later instants
\* first; documents of one date by descending id
Precedes(a, b) ==
    \/ a.date.kind = "iso" /\ b.date.kind = "timestamp"
    \/ a.date.kind = b.date.kind /\ a.date.day > b.date.day
    \/ a.date.kind = b.date.kind /\ a.date.day = b.date.day
          /\ PartOf(a.date) > PartOf(b.date)
    \/ a.date = b.date /\ a.id > b.id

RECURSIVE OrderByDateDesc(_)
OrderByDateDesc(docs) ==
    IF docs = {} THEN <<>>
    ELSE LET first == CHOOSE a \in docs : \A b \in docs \ {a} : Precedes(a, b)
         IN <<first>> \o OrderByDateDesc(docs \ {first})

\* query(collection(db, 'expenses'), where('uid', '==', uid), orderBy('date', 'desc'))
Query(uid) == OrderByDateDesc({d \in store : d.uid = uid})

----------------------------------------------------------------------------
(* ExpenseList: the filter fields *)

\* no modal dialog covers the page
NoDialog == ~editOpen /\ ~deleteDialogOpen

\* the Select of the filter panel: choosing an option adds it to the value,
\* choosing a selected option removes it
Toggle(selected, c) ==
    IF Includes(selected, c)
    THEN SelectSeq(selected, LAMBDA x : x # c)
    ELSE Append(selected, c)

setSelectedFilterCategories(c) ==
    /\ NoDialog
    /\ c \in Range(availableCategories)
    /\ selectedFilterCategories' = Toggle(selectedFilterCategories, c)
    /\ UNCHANGED <<sessionVars, pending, expenses, formVars, dialogVars, clockVars,
                   filterStartDate, filterEndDate, filterAmountMin, filterAmountMax>>
    /\ Render

setFilterStartDate(v) ==
    /\ NoDialog
    /\ v # filterStartDate
    /\ filterStartDate' = v
    /\ UNCHANGED <<sessionVars, pending, expenses, formVars, dialogVars, clockVars,
                   selectedFilterCategories, filterEndDate, filterAmountMin,
                   filterAmountMax>>
    /\ Render

setFilterEndDate(v) ==
    /\ NoDialog
    /\ v # filterEndDate
    /\ filterEndDate' = v
    /\ UNCHANGED <<sessionVars, pending, expenses, formVars, dialogVars, clockVars,
                   selectedFilterCategories, filterStartDate, filterAmountMin,
                   filterAmountMax>>
    /\ Render

setFilterAmountMin(v) ==
    /\ NoDialog
    /\ v # filterAmountMin
    /\ filterAmountMin' = v
    /\ UNCHANGED <<sessionVars, pending, expenses, formVars, dialogVars, clockVars,
                   selectedFilterCategories, filterStartDate, filterEndDate,
                   filterAmountMax>>
    /\ Render

setFilterAmountMax(v) ==
    /\ NoDialog
    /\ v # filterAmountMax
    /\ filterAmountMax' = v
    /\ UNCHANGED <<sessionVars, pending, expenses, formVars, dialogVars, clockVars,
                   selectedFilterCategories, filterStartDate, filterEndDate,
                   filterAmountMin>>
    /\ Render

\* getCurrentMonthRange().end
CurrentMonthEnd(t, offset) ==
    ToISODate(LocalMidnight(LastDayOfMonth(LocalDay(t, offset)), offset))

\* the Current Month button of the filter panel
setCurrentMonth ==
    /\ NoDialog
    /\ filterStartDate' = DefaultStartDate(now, utcOffset)
    /\ filterEndDate' = CurrentMonthEnd(now, utcOffset)
    /\ UNCHANGED <<sessionVars, pending, expenses, formVars, dialogVars, clockVars,
                   selectedFilterCategories, filterAmountMin, filterAmountMax>>
    /\ Render

\* the Clear All button of the filter panel
clearFilters ==
    /\ NoDialog
    /\ selectedFilterCategories' = <<>>
    /\ filterStartDate' = DefaultStartDate(now, utcOffset)
    /\ filterEndDate' = DefaultEndDate(now)
    /\ filterAmountMin' = <<>>
    /\ filterAmountMax' = <<>>
    /\ UNCHANGED <<sessionVars, pending, expenses, formVars, dialogVars, clockVars>>
    /\ Render

\* the useState initialisers of ExpenseList, run when the component mounts
MountExpenseList ==
    /\ selectedFilterCategories' = <<>>
    /\ filterStartDate' = DefaultStartDate(now, utcOffset)
    /\ filterEndDate' = DefaultEndDate(now)
    /\ filterAmountMin' = <<>>
    /\ filterAmountMax' = <<>>
    /\ deleteDialogOpen' = FALSE
    /\ expenseToDelete' = NoExpense

\* ExpenseList is not rendered: its state does not exist
UnmountExpenseList ==
    /\ selectedFilterCategories' = <<>>
    /\ filterStartDate' = EmptyDate
    /\ filterEndDate' = EmptyDate
    /\ filterAmountMin' = <<>>
    /\ filterAmountMax' = <<>>
    /\ deleteDialogOpen' = FALSE
    /\ expenseToDelete' = NoExpense

----------------------------------------------------------------------------
(* The store: writes of the 'expenses' collection *)

\* addDoc(collection(db, 'expenses'), data): the collection gains a document
\* under a new id and the listeners of its owner's query are notified
addDoc(data) ==
    /\ nextId <= MaxExpenses
    /\ store' = store \cup {Document(nextId, data)}
    /\ nextId' = nextId + 1
    /\ notify' = notify \cup (listeners \cap {data.uid})

\* the document written over: the fields of data only
SetDoc(d, data) == Document(d.id, data)

\* the document after updateDoc: the fields of data replaced or added, every
\* other field kept
UpdateDoc(d, data) == data @@ d

\* updateDoc(doc(db, 'expenses', id), data)
updateDoc(id, data) ==
    /\ \E d \in store : d.id = id
    /\ store' = {IF d.id = id THEN UpdateDoc(d, data) ELSE d : d \in store}
    /\ notify' = notify \cup (listeners \cap {d.uid : d \in {e \in store : e.id = id}})
    /\ nextId' = nextId

\* deleteDoc(doc(db, 'expenses', id))
deleteDoc(id) ==
    /\ store' = {d \in store : d.id # id}
    /\ notify' = notify \cup (listeners \cap {d.uid : d \in {e \in store : e.id = id}})
    /\ nextId' = nextId

----------------------------------------------------------------------------
(* App: authentication observer and store subscription *)

\* the two expenses a session of this model records
SessionFields ==
    {[amount |-> Num(100), date |-> Iso(5), categories |-> <<"food">>],
     [amount |-> Num(50), date |-> Iso(20), categories |-> <<"travel">>]}

\* the callback given to onAuthStateChanged, called with identity u. The
\* unsubscribe function it returns is dropped by the identity provider, so
\* the listener it registers stays registered.
AuthStateChanged(u) ==
    /\ user' = u
    /\ IF u # NoUser
       THEN /\ listeners' = listeners \cup {u}
            /\ notify' = notify \cup {u}
            /\ expenses' = expenses
       ELSE /\ expenses' = <<>>
            /\ UNCHANGED <<listeners, notify>>

\* the Sign In / Register button of the dialog, offered while no user is
\* signed in: the provider signs u in and notifies the observer; App renders
\* the page of the signed-in user, which mounts ExpenseList
SignIn(u) ==
    /\ user = NoUser
    /\ currentUser' = u
    /\ AuthStateChanged(u)
    /\ MountExpenseList
    /\ UNCHANGED <<store, nextId, writes, pending, formVars, deleteGesture, clockVars>>
    /\ Render

\* handleLogout: signOut notifies the observer with null, then setUser(null);
\* App renders the page of no user, which unmounts ExpenseList
handleLogout ==
    /\ user # NoUser
    /\ NoDialog
    /\ currentUser' = NoUser
    /\ AuthStateChanged(NoUser)
    /\ UnmountExpenseList
    /\ UNCHANGED <<store, nextId, writes, pending, formVars, deleteGesture, clockVars>>
    /\ Render

\* the callback given to onSnapshot for the query of uid: a registered
\* listener receives the current result of its query
onSnapshot(uid) ==
    /\ uid \in notify
    /\ expenses' = Query(uid)
    /\ notify' = notify \ {uid}
    /\ UNCHANGED <<user, currentUser, store, nextId, listeners, writes, pending,
                   formVars, filterVars, dialogVars, clockVars>>
    /\ Render

\* a create submission of the form holding the fields f, the store applying
\* the write
submitExpense(f) ==
    /\ user # NoUser
    /\ currentUser # NoUser
    /\ NoDialog
    /\ addDoc(ExpenseData(currentUser, f, now))
    /\ UNCHANGED <<user, currentUser, listeners, writes, pending, expenses, formVars,
                   filterVars, dialogVars, memoVars, clockVars>>

----------------------------------------------------------------------------
(* App: the add/edit form *)

FormAmountTexts == {<<"5", "0">>, <<"-", "5">>, <<"a">>}
Descriptions == {"lunch"}
FormDates == {Iso(5)}
\* texts of one word, with spaces around it
CategoryInputTexts == {<<" ", "food">>, <<"travel", " ">>}

RECURSIVE TrimEnd(_)
TrimEnd(t) ==
    IF t # <<>> /\ t[Len(t)] = " " THEN TrimEnd(SubSeq(t, 1, Len(t) - 1)) ELSE t

\* String.prototype.trim
Trim(t) == TrimEnd(SkipSpaces(t))

\* the label a trimmed text of one word spells
LabelOf(t) == t[1]

\* the categories of the expenses, offered as chips
existingCategories == SetOrder(FlatMapCategories(expenses), <<>>)

setAmount(v) ==
    /\ user # NoUser
    /\ v # amount
    /\ amount' = v
    /\ UNCHANGED <<sessionVars, pending, expenses, filterVars, dialogVars, memoVars,
                   clockVars, description, date, categoryInput, selectedCategories,
                   editId, editOpen>>

setDescription(v) ==
    /\ user # NoUser
    /\ v # description
    /\ description' = v
    /\ UNCHANGED <<sessionVars, pending, expenses, filterVars, dialogVars, memoVars,
                   clockVars, amount, date, categoryInput, selectedCategories,
                   editId, editOpen>>

setDate(v) ==
    /\ user # NoUser
    /\ v # date
    /\ date' = v
    /\ UNCHANGED <<sessionVars, pending, expenses, filterVars, dialogVars, memoVars,
                   clockVars, amount, description, categoryInput, selectedCategories,
                   editId, editOpen>>

setCategoryInput(v) ==
    /\ user # NoUser
    /\ v # categoryInput
    /\ categoryInput' = v
    /\ UNCHANGED <<sessionVars, pending, expenses, filterVars, dialogVars, memoVars,
                   clockVars, amount, description, date, selectedCategories,
                   editId, editOpen>>

\* AddCategory without the includes test
AddCategoryUnchecked(selected, c) == Append(selected, c)

\* if (!selectedCategories.includes(c)) setSelectedCategories([...selectedCategories, c])
AddCategory(selected, c) ==
    IF Includes(selected, c) THEN selected ELSE Append(selected, c)

\* onClick of the chip of an existing category, in the form and in the dialog
clickExistingCategory(c) ==
    /\ user # NoUser
    /\ c \in Range(existingCategories)
    /\ selectedCategories' = AddCategory(selectedCategories, c)
    /\ UNCHANGED <<sessionVars, pending, expenses, filterVars, dialogVars, memoVars,
                   clockVars, amount, description, date, categoryInput, editId,
                   editOpen>>

\* Enter in the new-category field and onClick of the Add button, in the
\* form and in the dialog
addNewCategory ==
    /\ user # NoUser
    /\ Trim(categoryInput) # <<>>
    /\ selectedCategories' = AddCategory(selectedCategories, LabelOf(Trim(categoryInput)))
    /\ categoryInput' = <<>>
    /\ UNCHANGED <<sessionVars, pending, expenses, filterVars, dialogVars, memoVars,
                   clockVars, amount, description, date, editId, editOpen>>

\* selectedCategories.filter((_, i) => i !== index)
RemoveAt(s, index) == SubSeq(s, 1, index - 1) \o SubSeq(s, index + 1, Len(s))

\* onDelete of the chip of a selected category
deleteSelectedCategory(index) ==
    /\ user # NoUser
    /\ index \in 1..Len(selectedCategories)
    /\ selectedCategories' = RemoveAt(selectedCategories, index)
    /\ UNCHANGED <<sessionVars, pending, expenses, filterVars, dialogVars, memoVars,
                   clockVars, amount, description, date, categoryInput, editId,
                   editOpen>>

\* date || new Date()
DateOrNow == IF DateSet(date) THEN date ELSE Timestamp(now)

\* expenseData of an update
UpdateData ==
    [description |-> description, amount |-> parseFloat(amount), date |-> DateOrNow,
     categories |-> selectedCategories, updatedAt |-> Timestamp(now)]

\* expenseData of a create
CreateData ==
    [description |-> description, amount |-> parseFloat(amount), date |-> DateOrNow,
     categories |-> selectedCategories, uid |-> currentUser,
     createdAt |-> Timestamp(now)]

\* handleAddExpense up to its await: the write is sent to the store, which
\* applies it, or refuses it (ok FALSE); an update of a document the store
\* does not hold is refused
handleAddExpense ==
    /\ currentUser # NoUser
    /\ writes < MaxWrites
    /\ writes' = writes + 1
    /\ \E ok \in BOOLEAN :
          IF editId # NoEdit
          THEN /\ IF ok THEN updateDoc(editId, UpdateData)
                        ELSE UNCHANGED <<store, nextId, notify>>
               /\ pending' = Append(pending, [op |-> "update", ok |-> ok])
          ELSE /\ IF ok THEN addDoc(CreateData)
                        ELSE UNCHANGED <<store, nextId, notify>>
               /\ pending' = Append(pending, [op |-> "add", ok |-> ok])
    /\ UNCHANGED <<user, currentUser, listeners, expenses, formVars, filterVars,
                   dialogVars, memoVars, clockVars>>

\* handleAddExpenseResume with the resets in a finally block: a refused
\* write resets the form as an applied one does
handleAddExpenseResumeFinally ==
    /\ pending # <<>>
    /\ Head(pending).ok => notify = {}
    /\ IF Head(pending).op = "update" /\ Head(pending).ok
       THEN editId' = NoEdit /\ editOpen' = FALSE
       ELSE UNCHANGED <<editId, editOpen>>
    /\ amount' = <<>>
    /\ description' = ""
    /\ date' = EmptyDate
    /\ selectedCategories' = <<>>
    /\ UNCHANGED categoryInput
    /\ pending' = Tail(pending)
    /\ UNCHANGED <<sessionVars, expenses, filterVars, dialogVars, memoVars, clockVars>>

\* handleAddExpense after its await: a write the store applied resets the
\* form, and the edit state after an update; a refused write raises the
\* alert. The store resolves the promise of a write after it has delivered
\* the snapshot of that write to the listeners.
handleAddExpenseResume ==
    /\ pending # <<>>
    /\ Head(pending).ok => notify = {}
    /\ IF Head(pending).ok
       THEN /\ IF Head(pending).op = "update"
               THEN editId' = NoEdit /\ editOpen' = FALSE
               ELSE UNCHANGED <<editId, editOpen>>
            /\ amount' = <<>>
            /\ description' = ""
            /\ date' = EmptyDate
            /\ selectedCategories' = <<>>
            /\ UNCHANGED categoryInput
       ELSE UNCHANGED formVars
    /\ pending' = Tail(pending)
    /\ UNCHANGED <<sessionVars, expenses, filterVars, dialogVars, memoVars, clockVars>>

\* the Add Expense / Update Expense button of the form
AddExpenseButton ==
    /\ user # NoUser
    /\ NoDialog
    /\ ~(amount = <<>> \/ description = "" \/ Len(selectedCategories) = 0)
    /\ handleAddExpense

\* the Save button of the edit dialog
SaveButton ==
    /\ editOpen
    /\ handleAddExpense

\* the Cancel button of the edit dialog
CancelButton ==
    /\ editOpen
    /\ editOpen' = FALSE
    /\ editId' = NoEdit
    /\ amount' = <<>>
    /\ description' = ""
    /\ date' = EmptyDate
    /\ selectedCategories' = <<>>
    /\ UNCHANGED <<sessionVars, pending, expenses, filterVars, dialogVars, memoVars,
                   clockVars, categoryInput>>

\* onClose of the edit dialog (Escape, click outside)
closeEditDialog ==
    /\ editOpen
    /\ editOpen' = FALSE
    /\ UNCHANGED <<sessionVars, pending, expenses, filterVars, dialogVars, memoVars,
                   clockVars, amount, description, date, categoryInput,
                   selectedCategories, editId>>

\* onEdit(expense), called by the edit button of a row of the list
onEdit(expense) ==
    /\ user # NoUser
    /\ NoDialog
    /\ Includes(filteredExpenses, expense)
    /\ editId' = expense.id
    /\ amount' = NumberToString(expense.amount)
    /\ description' = expense.description
    /\ selectedCategories' = CategoriesOf(expense)
    /\ date' = expense.date
    /\ editOpen' = TRUE
    /\ UNCHANGED <<sessionVars, pending, expenses, filterVars, dialogVars, memoVars,
                   clockVars, categoryInput>>

----------------------------------------------------------------------------
(* ExpenseList: the delete dialog *)

\* handleDelete(id) of App, the onDelete prop of ExpenseList
handleDelete(id) ==
    /\ user # NoUser
    /\ deleteDoc(id)
    /\ UNCHANGED <<user, currentUser, listeners, writes, pending, expenses, formVars,
                   filterVars, memoVars, clockVars>>

\* the delete button of a row of the list
handleDeleteClick(expense) ==
    /\ user # NoUser
    /\ NoDialog
    /\ Includes(filteredExpenses, expense)
    /\ expenseToDelete' = expense
    /\ deleteDialogOpen' = TRUE
    /\ deleteGesture' = [kind |-> "click", id |-> expense.id]
    /\ UNCHANGED <<sessionVars, pending, expenses, formVars, filterVars, memoVars,
                   clockVars>>

\* cancelDelete closing the dialog without forgetting the expense
cancelDeleteKeepingExpense ==
    /\ deleteDialogOpen
    /\ deleteDialogOpen' = FALSE
    /\ deleteGesture' = [kind |-> "cancel", id |-> deleteGesture.id]
    /\ UNCHANGED <<sessionVars, pending, expenses, formVars, filterVars, memoVars,
                   clockVars, expenseToDelete>>

\* cancelDelete calling onDelete before it closes the dialog
cancelDeleteDeleting ==
    /\ deleteDialogOpen
    /\ handleDelete(expenseToDelete.id)
    /\ deleteDialogOpen' = FALSE
    /\ expenseToDelete' = NoExpense
    /\ deleteGesture' = [kind |-> "cancel", id |-> deleteGesture.id]

\* the Cancel button and onClose of the delete dialog
cancelDelete ==
    /\ deleteDialogOpen
    /\ deleteDialogOpen' = FALSE
    /\ expenseToDelete' = NoExpense
    /\ deleteGesture' = [kind |-> "cancel", id |-> deleteGesture.id]
    /\ UNCHANGED <<sessionVars, pending, expenses, formVars, filterVars, memoVars,
                   clockVars>>

\* the Delete button of the delete dialog
confirmDelete ==
    /\ deleteDialogOpen
    /\ expenseToDelete # NoExpense
    /\ handleDelete(expenseToDelete.id)
    /\ deleteDialogOpen' = FALSE
    /\ expenseToDelete' = NoExpense
    /\ deleteGesture' = [kind |-> "confirm", id |-> deleteGesture.id]

----------------------------------------------------------------------------
(* The clock *)

FirstInstant == CHOOSE t \in Instants : \A u \in Instants : t <= u
LastInstant == CHOOSE t \in Instants : \A u \in Instants : u <= t

\* time passes
Tick ==
    /\ \E t \in Instants : t > now /\ now' = t
    /\ UNCHANGED <<sessionVars, pending, expenses, formVars, filterVars, dialogVars,
                   memoVars, utcOffset>>

----------------------------------------------------------------------------
(* Initial values of the state of App, and of the delete dialog *)

FormEmpty ==
    /\ amount = <<>>
    /\ description = ""
    /\ date = EmptyDate
    /\ categoryInput = <<>>
    /\ selectedCategories = <<>>
    /\ editId = NoEdit
    /\ editOpen = FALSE

DialogClosed ==
    /\ deleteDialogOpen = FALSE
    /\ expenseToDelete = NoExpense
    /\ deleteGesture = [kind |-> "none", id |-> 0]

----------------------------------------------------------------------------
(* The filter specification: ExpenseList rendered over every expense list    *)
(* the store query can deliver, its filter fields edited in any order.       *)

FilterInit ==
    /\ user = "u1"
    /\ currentUser = "u1"
    /\ now = LastInstant
    /\ utcOffset = 0
    /\ \E n \in 0..MaxExpenses : \E f \in [1..n -> ExpenseFields] :
          \* ids are arbitrary names: the documents are named in the order
          \* of the query, last document first
          /\ \A i \in 1..(n - 1) : f[i].date.day <= f[i + 1].date.day
          /\ store = {Document(i, ExpenseData("u1", f[i], FirstInstant)) : i \in 1..n}
          /\ nextId = n + 1
    /\ expenses = Query("u1")
    /\ listeners = {"u1"}
    /\ notify = {}
    /\ writes = 0
    /\ pending = <<>>
    /\ FormEmpty
    /\ DialogClosed
    /\ selectedFilterCategories = <<>>
    /\ filterStartDate \in DateTexts
    /\ filterEndDate \in DateTexts
    /\ filterAmountMin = <<>>
    /\ filterAmountMax = <<>>
    /\ availableCategories = DeriveAvailableCategories(expenses)
    /\ filteredExpenses = ApplyFilters(expenses, selectedFilterCategories,
                                       filterStartDate, filterEndDate,
                                       filterAmountMin, filterAmountMax)
    /\ totalAmount = ComputeTotal(filteredExpenses)
    /\ totalLabel = formatIndianNumber(totalAmount)

FilterNext ==
    \/ \E c \in Categories : setSelectedFilterCategories(c)
    \/ \E v \in DateTexts : setFilterStartDate(v)
    \/ \E v \in DateTexts : setFilterEndDate(v)
    \/ \E v \in AmountTexts : setFilterAmountMin(v)
    \/ \E v \in AmountTexts : setFilterAmountMax(v)

FilterSpec == FilterInit /\ [][FilterNext]_vars

----------------------------------------------------------------------------
(* The form specification: a signed-in user fills the form, submits, edits  *)
(* the listed expenses and saves, while time passes.                        *)

\* the expense the user recorded before: 50 on day 5 for food
EarlierExpense ==
    Document(1, ExpenseData("u1", [amount |-> Num(50), date |-> Iso(5),
                                   categories |-> <<"food">>], FirstInstant))

\* the user opened the page at the first instant, the store holding the
\* documents recorded so far; it is now the last instant
FormInitWith(docs) ==
    /\ user = "u1"
    /\ currentUser = "u1"
    /\ now = LastInstant
    /\ utcOffset = 0
    /\ store = docs
    /\ nextId = Cardinality(docs) + 1
    /\ listeners = {"u1"}
    /\ notify = {}
    /\ writes = 0
    /\ pending = <<>>
    /\ expenses = Query("u1")
    /\ FormEmpty
    /\ DialogClosed
    /\ selectedFilterCategories = <<>>
    /\ filterStartDate = DefaultStartDate(FirstInstant, utcOffset)
    /\ filterEndDate = DefaultEndDate(FirstInstant)
    /\ filterAmountMin = <<>>
    /\ filterAmountMax = <<>>
    /\ availableCategories = DeriveAvailableCategories(expenses)
    /\ filteredExpenses = ApplyFilters(expenses, selectedFilterCategories,
                                       filterStartDate, filterEndDate,
                                       filterAmountMin, filterAmountMax)
    /\ totalAmount = ComputeTotal(filteredExpenses)
    /\ totalLabel = formatIndianNumber(totalAmount)

\* the user has recorded one expense
FormInit == FormInitWith({EarlierExpense})

\* the user has recorded nothing yet
SubmitInit == FormInitWith({})

\* the gestures of the form and of the edit dialog other than typing, and
\* what the store answers
FormGestures ==
    \/ \E c \in Categories : clickExistingCategory(c)
    \/ addNewCategory
    \/ \E index \in 1..Cardinality(Categories) : deleteSelectedCategory(index)
    \/ AddExpenseButton
    \/ SaveButton
    \/ CancelButton
    \/ closeEditDialog
    \/ handleAddExpenseResume
    \/ \E i \in 1..Len(filteredExpenses) : onEdit(filteredExpenses[i])
    \/ onSnapshot("u1")

\* the user types a well-formed amount, a date and the label food
FormNext ==
    \/ \E v \in {<<>>, <<"5", "0">>} : setAmount(v)
    \/ \E v \in Descriptions : setDescription(v)
    \/ \E v \in FormDates : setDate(v)
    \/ \E v \in {<<" ">>, <<" ", "food">>} : setCategoryInput(v)
    \/ FormGestures

FormSpec == FormInit /\ [][FormNext]_vars

----------------------------------------------------------------------------
(* The amount specification: the form with every text the amount field     *)
(* takes.                                                                  *)

AmountNext ==
    \/ \E v \in FormAmountTexts \cup {<<>>} : setAmount(v)
    \/ \E v \in Descriptions : setDescription(v)
    \/ \E v \in {<<" ", "food">>} : setCategoryInput(v)
    \/ FormGestures

AmountSpec == FormInit /\ [][AmountNext]_vars

----------------------------------------------------------------------------
(* The category specification: the form with two labels typed, chosen and  *)
(* removed in any order.                                                   *)

CategoryNext ==
    \/ \E v \in {<<"5", "0">>} : setAmount(v)
    \/ \E v \in Descriptions : setDescription(v)
    \/ \E v \in CategoryInputTexts : setCategoryInput(v)
    \/ FormGestures

CategorySpec == FormInit /\ [][CategoryNext]_vars

\* the form of a user who has recorded nothing yet
SubmitSpec == SubmitInit /\ [][FormNext]_vars

\* the form of a user who also signs out and in again
SessionFormNext ==
    \/ FormNext
    \/ handleLogout
    \/ SignIn("u1")

SessionFormSpec == SubmitInit /\ [][SessionFormNext]_vars

----------------------------------------------------------------------------
(* The category rule specification: the filter fields over lists that may  *)
(* hold expenses written without a categories field.                       *)

\* the data of an expense stored without a categories field
WithoutCategories(data) == [k \in DOMAIN data \ {"categories"} |-> data[k]]

UncategorisedFields ==
    [amount : {Num(50)}, date : {Iso(5)}, categories : CategoryLists]

CategoryRuleInit ==
    /\ user = "u1"
    /\ currentUser = "u1"
    /\ now = LastInstant
    /\ utcOffset = 0
    /\ \E n \in 1..MaxExpenses :
       \E f \in [1..n -> UncategorisedFields] :
       \E bare \in SUBSET (1..n) :
          /\ store = {Document(i, IF i \in bare
                                   THEN WithoutCategories(ExpenseData("u1", f[i], FirstInstant))
                                   ELSE ExpenseData("u1", f[i], FirstInstant)) :
                        i \in 1..n}
          \* the categories drawn for a record stored without them are not used
          /\ \A i \in bare : f[i].categories = <<"food">>
          /\ nextId = n + 1
    /\ expenses = Query("u1")
    /\ listeners = {"u1"}
    /\ notify = {}
    /\ writes = 0
    /\ pending = <<>>
    /\ FormEmpty
    /\ DialogClosed
    /\ selectedFilterCategories = <<>>
    /\ filterStartDate = EmptyDate
    /\ filterEndDate = EmptyDate
    /\ filterAmountMin = <<>>
    /\ filterAmountMax = <<>>
    /\ availableCategories = DeriveAvailableCategories(expenses)
    /\ filteredExpenses = ApplyFilters(expenses, selectedFilterCategories,
                                       filterStartDate, filterEndDate,
                                       filterAmountMin, filterAmountMax)
    /\ totalAmount = ComputeTotal(filteredExpenses)
    /\ totalLabel = formatIndianNumber(totalAmount)

CategoryRuleSpec == CategoryRuleInit /\ [][FilterNext]_vars

----------------------------------------------------------------------------
(* The format specification: the filter fields over lists whose amounts     *)
(* reach from hundreds to tens of lakhs, for the texts formatIndianNumber   *)
(* shows.                                                                   *)

FormatAmounts == {Num(999), Num(1000), Num(99999), Num(100000), Num(1234567), NaN}

FormatInit ==
    /\ user = "u1"
    /\ currentUser = "u1"
    /\ now = LastInstant
    /\ utcOffset = 0
    /\ \E n \in 1..MaxExpenses : \E a \in [1..n -> FormatAmounts] :
          /\ store = {Document(i, ExpenseData("u1", [amount |-> a[i], date |-> Iso(5),
                                                     categories |-> <<"food">>],
                                              FirstInstant)) : i \in 1..n}
          /\ nextId = n + 1
    /\ expenses = Query("u1")
    /\ listeners = {"u1"}
    /\ notify = {}
    /\ writes = 0
    /\ pending = <<>>
    /\ FormEmpty
    /\ DialogClosed
    /\ selectedFilterCategories = <<>>
    /\ filterStartDate = EmptyDate
    /\ filterEndDate = EmptyDate
    /\ filterAmountMin = <<>>
    /\ filterAmountMax = <<>>
    /\ availableCategories = DeriveAvailableCategories(expenses)
    /\ filteredExpenses = ApplyFilters(expenses, selectedFilterCategories,
                                       filterStartDate, filterEndDate,
                                       filterAmountMin, filterAmountMax)
    /\ totalAmount = ComputeTotal(filteredExpenses)
    /\ totalLabel = formatIndianNumber(totalAmount)

FormatSpec == FormatInit /\ [][FilterNext]_vars

----------------------------------------------------------------------------
(* The list specification: ExpenseList over the two expenses of a user who *)
(* edits the filter fields and deletes expenses, the store delivering the  *)
(* snapshots.                                                              *)

ListInit ==
    /\ user = "u1"
    /\ currentUser = "u1"
    /\ now = LastInstant
    /\ utcOffset \in UtcOffsets
    /\ store = {Document(i, ExpenseData("u1", f, FirstInstant)) :
                  <<i, f>> \in {<<1, [amount |-> Num(100), date |-> Iso(5),
                                     categories |-> <<"food">>]>>,
                                <<2, [amount |-> Num(50), date |-> Iso(20),
                                     categories |-> <<"travel">>]>>}}
    /\ nextId = 3
    /\ listeners = {"u1"}
    /\ notify = {}
    /\ writes = 0
    /\ pending = <<>>
    /\ expenses = Query("u1")
    /\ FormEmpty
    /\ DialogClosed
    /\ selectedFilterCategories = <<>>
    /\ filterStartDate = DefaultStartDate(now, utcOffset)
    /\ filterEndDate = DefaultEndDate(now)
    /\ filterAmountMin = <<>>
    /\ filterAmountMax = <<>>
    /\ availableCategories = DeriveAvailableCategories(expenses)
    /\ filteredExpenses = ApplyFilters(expenses, selectedFilterCategories,
                                       filterStartDate, filterEndDate,
                                       filterAmountMin, filterAmountMax)
    /\ totalAmount = ComputeTotal(filteredExpenses)
    /\ totalLabel = formatIndianNumber(totalAmount)

ListNext ==
    \/ FilterNext
    \/ setCurrentMonth
    \/ clearFilters
    \/ \E i \in 1..Len(filteredExpenses) : handleDeleteClick(filteredExpenses[i])
    \/ confirmDelete
    \/ cancelDelete
    \/ onSnapshot("u1")

ListSpec == ListInit /\ [][ListNext]_vars

----------------------------------------------------------------------------
(* The session specification: users sign in and out, record and delete    *)
(* expenses, while time passes.                                            *)

Init ==
    /\ user = NoUser
    /\ currentUser = NoUser
    /\ now \in Instants
    /\ utcOffset \in UtcOffsets
    /\ store = {}
    /\ nextId = 1
    /\ listeners = {}
    /\ notify = {}
    /\ writes = 0
    /\ pending = <<>>
    /\ expenses = <<>>
    /\ FormEmpty
    /\ DialogClosed
    /\ selectedFilterCategories = <<>>
    /\ filterStartDate = EmptyDate
    /\ filterEndDate = EmptyDate
    /\ filterAmountMin = <<>>
    /\ filterAmountMax = <<>>
    /\ availableCategories = <<>>
    /\ filteredExpenses = <<>>
    /\ totalAmount = Num(0)
    /\ totalLabel = formatIndianNumber(totalAmount)

Next ==
    \/ \E u \in Users : SignIn(u)
    \/ handleLogout
    \/ \E uid \in Users : onSnapshot(uid)
    \/ \E f \in SessionFields : submitExpense(f)
    \/ \E i \in 1..Len(filteredExpenses) : handleDeleteClick(filteredExpenses[i])
    \/ confirmDelete
    \/ cancelDelete
    \/ Tick

Spec == Init /\ [][Next]_vars

----------------------------------------------------------------------------
(* Properties *)

InFiltered(e) == \E j \in 1..Len(filteredExpenses) : filteredExpenses[j] = e

\* s is a subsequence of t: the elements of s are elements of t at strictly
\* increasing positions
RECURSIVE IsSubsequence(_, _)
IsSubsequence(s, t) ==
    IF s = <<>> THEN TRUE
    ELSE IF t = <<>> THEN FALSE
    ELSE IF Head(s) = Head(t) THEN IsSubsequence(Tail(s), Tail(t))
    ELSE IsSubsequence(s, Tail(t))

\* the rules of the filter as the specification states them
CategoryRule(e) ==
    selectedFilterCategories # <<>> =>
        Range(selectedFilterCategories) \subseteq Range(e.categories)

DateRule(e) ==
    /\ filterStartDate # EmptyDate => e.date.day >= filterStartDate.day
    /\ filterEndDate # EmptyDate => e.date.day <= filterEndDate.day

AmountRule(e) ==
    /\ filterAmountMin # <<>> => e.amount.v >= parseFloat(filterAmountMin).v
    /\ filterAmountMax # <<>> => e.amount.v <= parseFloat(filterAmountMax).v

\* the two expenses of the scenarios: 100 on day 5 for food, 50 on day 20
\* for travel, as the store query delivers them
ScenarioExpenses ==
    /\ Len(expenses) = 2
    /\ \E i, j \in 1..2 :
          /\ expenses[i].amount = Num(100) /\ expenses[i].date = Iso(5)
          /\ expenses[i].categories = <<"food">>
          /\ expenses[j].amount = Num(50) /\ expenses[j].date = Iso(20)
          /\ expenses[j].categories = <<"travel">>

\* the filtered list holds exactly the expense of 100 and the total is 100
OnlyTheHundred ==
    /\ Len(filteredExpenses) = 1
    /\ filteredExpenses[1].amount = Num(100)
    /\ filteredExpenses[1].categories = <<"food">>
    /\ totalAmount = Num(100)

\* C1: whenever a user is signed in, every record of the expenses list
\* carries the uid of that user.
C1_OwnerIsolation ==
    user # NoUser => \A i \in 1..Len(expenses) : expenses[i].uid = user

\* C2: the filtered list is a subsequence of the expense list: only elements
\* of the list, none twice, in the order of the list.
C2_FilteredIsSubsequence ==
    /\ IsSubsequence(filteredExpenses, expenses)
    /\ NoDuplicates(filteredExpenses)

C2_Witness ==
    /\ Len(filteredExpenses) = 2
    /\ selectedFilterCategories # <<>>
    /\ filterStartDate # EmptyDate
    /\ filterAmountMin # <<>>

EmptyFilter ==
    /\ selectedFilterCategories = <<>>
    /\ filterStartDate = EmptyDate /\ filterEndDate = EmptyDate
    /\ filterAmountMin = <<>> /\ filterAmountMax = <<>>

\* C4: with no category selected and every date and amount bound empty, the
\* filtered list is the expense list itself.
C4_EmptyFilterIsIdentity == EmptyFilter => filteredExpenses = expenses

C4_Witness == EmptyFilter /\ Len(expenses) = MaxExpenses /\ filteredExpenses = expenses

\* C5: filtering the filtered list again with the same filter fields returns
\* the filtered list.
C5_Idempotent ==
    ApplyFilters(filteredExpenses, selectedFilterCategories, filterStartDate,
                 filterEndDate, filterAmountMin, filterAmountMax) = filteredExpenses

C5_Witness ==
    /\ Len(filteredExpenses) >= 1
    /\ Len(filteredExpenses) < Len(expenses)
    /\ selectedFilterCategories # <<>>

\* the arithmetic sum of the amounts of the whole expense list
RECURSIVE SumOfAmounts(_)
SumOfAmounts(E) ==
    IF E = <<>> THEN 0 ELSE Head(E).amount.v + SumOfAmounts(Tail(E))

\* C6: when no amount of the list is negative, the total of the filtered
\* list is at most the total of the whole list.
C6_TotalBounded ==
    (\A i \in 1..Len(expenses) : ~expenses[i].amount.nan /\ expenses[i].amount.v >= 0)
        => /\ ~totalAmount.nan
           /\ totalAmount.v <= SumOfAmounts(expenses)

C6_Witness ==
    /\ totalAmount.v > 0
    /\ totalAmount.v < SumOfAmounts(expenses)

\* position of the first occurrence of label c over the categories of the
\* expenses, read expense by expense
FirstSeen(c) ==
    LET width == Cardinality(Categories) + 1
        places == {i * width + j : i \in 1..Len(expenses), j \in 1..width}
        at(p) == \E i \in 1..Len(expenses) :
                    \E j \in 1..Len(expenses[i].categories) :
                        p = i * width + j /\ expenses[i].categories[j] = c
    IN CHOOSE p \in places : at(p) /\ \A q \in places : at(q) => p <= q

\* C7: the available categories are exactly the labels of the expenses, each
\* once, in the order they are first seen; no expenses, no categories.
C7_AvailableCategories ==
    /\ Range(availableCategories) =
          UNION {Range(expenses[i].categories) : i \in 1..Len(expenses)}
    /\ NoDuplicates(availableCategories)
    /\ \A a, b \in 1..Len(availableCategories) :
          a < b => FirstSeen(availableCategories[a]) < FirstSeen(availableCategories[b])
    /\ expenses = <<>> => availableCategories = <<>>

C7_Witness ==
    /\ availableCategories = <<"travel", "food">>
    /\ Len(FlatMapCategories(expenses)) > 2

C10_VariantsAgree ==
    filteredExpenses =
        ApplyFiltersVariant(expenses, selectedFilterCategories, filterStartDate,
                            filterEndDate, filterAmountMin, filterAmountMax)

\* the calendar day the user's clock shows
Today == (now + utcOffset) \div TicksPerDay

\* C11: when ExpenseList mounts, at every date and time of day, the start
\* date of the filter is the first day of the current calendar month, the
\* end date is today, and the category selection and both amount fields
\* are empty.
C11_InitialFilterState ==
    [][(user = NoUser /\ user' # NoUser) =>
          /\ filterStartDate' = Iso(FirstDayOfMonth(Today))
          /\ filterEndDate' = Iso(Today)
          /\ selectedFilterCategories' = <<>>
          /\ filterAmountMin' = <<>>
          /\ filterAmountMax' = <<>>]_vars

\* C12: of an empty list of expenses the filtered list is empty and the
\* total is 0, whatever the filter fields hold.
C12_EmptyListEmptyResult ==
    /\ expenses = <<>> => (filteredExpenses = <<>> /\ totalAmount = Num(0))
    /\ \A selected \in CategoryLists \cup {<<>>} :
          LET result == ApplyFilters(<<>>, selected, filterStartDate,
                                     filterEndDate, filterAmountMin,
                                     filterAmountMax)
          IN result = <<>> /\ ComputeTotal(result) = Num(0)

C12_Witness ==
    /\ expenses = <<>>
    /\ filterStartDate # EmptyDate
    /\ filterAmountMin # <<>>
    /\ filteredExpenses = <<>>
    /\ totalAmount = Num(0)

\* the ids of a set of documents
IdsOf(docs) == {d.id : d \in docs}

\* the fields the update of the form writes
UpdatedFields == {"description", "amount", "date", "categories", "updatedAt"}

\* C13: a step of the form never removes a record or changes a record's
\* id; an update changes only the record named by editId and only its
\* description, amount, date, categories and updatedAt, so uid and
\* createdAt stay; a record the form creates carries the uid of the
\* authenticated user.
C13_UpdateKeepsIdentity ==
    [][ /\ IdsOf(store) \subseteq IdsOf(store')
        /\ \A d \in store, d2 \in store' :
              (d2.id = d.id /\ d2 # d) =>
                 /\ d.id = editId
                 /\ DOMAIN d2 = DOMAIN d \cup {"updatedAt"}
                 /\ \A k \in DOMAIN d \ UpdatedFields : d2[k] = d[k]
        /\ \A d2 \in store' :
              d2.id \notin IdsOf(store) =>
                 /\ "uid" \in DOMAIN d2
                 /\ d2.uid = currentUser
                 /\ currentUser # NoUser ]_vars

C13_Witness ==
    \E d, e \in store :
        /\ d.id = 1 /\ "updatedAt" \in DOMAIN d
        /\ d.uid = EarlierExpense.uid /\ d.createdAt = EarlierExpense.createdAt
        /\ d.categories # EarlierExpense.categories
        /\ e.id = 2 /\ "updatedAt" \notin DOMAIN e /\ e.uid = "u1"

\* C14: the amount of every stored expense is a number and is not negative.
C14_AmountsAreNumbers ==
    \A d \in store : ~d.amount.nan /\ d.amount.v >= 0

\* C15: neither the category selection of the form nor the categories of a
\* stored expense hold a label twice.
C15_NoLabelTwice ==
    /\ NoDuplicates(selectedCategories)
    /\ \A d \in store : NoDuplicates(d.categories)

C15_Witness ==
    /\ selectedCategories = <<"travel", "food">>
    /\ \E d \in store : d.id = 2 /\ Len(d.categories) = 2

\* C16: every expense written from the add form or from Save of the edit
\* dialog has at least one category.
C16_AtLeastOneCategory ==
    \A d \in store : d.categories # <<>>

\* the calendar day of the expense is within the date bounds that are set
DayWithinBounds(e) ==
    /\ filterStartDate = EmptyDate \/ e.date.day >= filterStartDate.day
    /\ filterEndDate = EmptyDate \/ e.date.day <= filterEndDate.day

C18_DeleteOnlyWhenConfirmed ==
    [][ /\ \A x \in IdsOf(store) \ IdsOf(store') :
              /\ deleteGesture.kind = "click"
              /\ deleteGesture.id = x
              /\ deleteGesture'.kind = "confirm"
        /\ (deleteGesture.kind = "click" /\ deleteGesture'.kind = "confirm") =>
              deleteGesture.id \notin IdsOf(store')
        /\ deleteGesture'.kind = "cancel" => IdsOf(store) \subseteq IdsOf(store')
      ]_vars

C18_Witness ==
    /\ deleteGesture = [kind |-> "confirm", id |-> 1]
    /\ IdsOf(store) = {2}
    /\ ~deleteDialogOpen

\* C19: in every state the filtered list is the filter of the current
\* expenses under the current filter fields and the total is the sum of the
\* current filtered list: no list update and no edit of a filter field
\* leaves a value of an earlier render.
C19_NoStaleValue ==
    /\ filteredExpenses = ApplyFilters(expenses, selectedFilterCategories,
                                       filterStartDate, filterEndDate,
                                       filterAmountMin, filterAmountMax)
    /\ totalAmount = Num(SumOfAmounts(filteredExpenses))
    /\ \A i \in 1..Len(expenses) :
          InFiltered(expenses[i]) <=>
             (CategoryRule(expenses[i]) /\ DateRule(expenses[i])
                 /\ AmountRule(expenses[i]))

C19_Witness ==
    /\ Len(expenses) = 1
    /\ expenses[1].id = 1
    /\ filterAmountMin = <<"6", "0">>
    /\ selectedFilterCategories = <<"food">>
    /\ Len(filteredExpenses) = 1
    /\ totalAmount = Num(100)

\* C20: a start date later than the end date is no constraint: every
\* expense that meets the category rule and the amount rule is in the
\* filtered list.
C20_InvertedRangeNoConstraint ==
    ( /\ DateSet(filterStartDate) /\ DateSet(filterEndDate)
      /\ filterStartDate.day > filterEndDate.day ) =>
        \A i \in 1..Len(expenses) :
            (CategoryRule(expenses[i]) /\ AmountRule(expenses[i])) =>
                InFiltered(expenses[i])

\* C21: the category rule of ExpenseList.js is all-match: with no label
\* selected every expense passes it; with labels selected an expense passes
\* exactly when it has a categories field that holds every selected label,
\* so an expense with no categories field fails.
C21_AllMatch ==
    \A i \in 1..Len(expenses) :
        LET e == expenses[i]
        IN (DateRule(e) /\ AmountRule(e)) =>
              (InFiltered(e) <=>
                  \/ selectedFilterCategories = <<>>
                  \/ /\ "categories" \in DOMAIN e
                     /\ Range(selectedFilterCategories) \subseteq Range(e.categories))

C21_Witness ==
    /\ selectedFilterCategories = <<"food", "travel">>
    /\ Len(expenses) = 2
    /\ \E i \in 1..2 : "categories" \notin DOMAIN expenses[i]
    /\ Len(filteredExpenses) = 1
    /\ Range(filteredExpenses[1].categories) = {"food", "travel"}

\* C22: a clearFilters step, from any filter state, leaves no category
\* selected, the start date on the first day of the current month, the end
\* date on today and both amount fields empty, which is the state the
\* fields have when the list is first shown.
C22_ClearRestoresDefaults ==
    [][clearFilters =>
          /\ selectedFilterCategories' = <<>>
          /\ filterStartDate' = Iso(FirstDayOfMonth(Today))
          /\ filterEndDate' = Iso(Today)
          /\ filterAmountMin' = <<>>
          /\ filterAmountMax' = <<>>]_vars

\* digits grouped in twos from the right
RECURSIVE GroupedInTwos(_)
GroupedInTwos(d) ==
    IF Len(d) <= 2 THEN d
    ELSE GroupedInTwos(SubSeq(d, 1, Len(d) - 2)) \o <<",">> \o SubSeq(d, Len(d) - 1, Len(d))

\* the Indian numbering standard: the last three digits are one group, the
\* digits before them are grouped in twos
IndianGrouping(d) ==
    IF Len(d) <= 3 THEN d
    ELSE GroupedInTwos(SubSeq(d, 1, Len(d) - 3)) \o <<",">> \o SubSeq(d, Len(d) - 2, Len(d))

\* what the Indian numbering standard shows for a value
IndianText(x) ==
    IF ~IsNumber(x) \/ x.nan THEN <<"0">> ELSE IndianGrouping(DigitsOf(x.v))

\* C23: the text shown for the total and for the amount of every row is the
\* Indian grouping of the number (last three digits, then groups of two)
\* when it is a non-negative integer, and "0" when it is NaN or no number,
\* as the amount of the delete dialog is while no expense is named.
C23_IndianGrouping ==
    /\ totalLabel = IndianText(totalAmount)
    /\ \A i \in 1..Len(filteredExpenses) :
          formatIndianNumber(filteredExpenses[i].amount)
             = IndianText(filteredExpenses[i].amount)
    /\ expenseToDelete = NoExpense => formatIndianNumber(Undefined) = <<"0">>

\* C24: while no user is signed in the expenses held in memory are empty:
\* no event after a sign-out, a snapshot notification included, fills the
\* list before the next sign-in.
C24_SignedOutListEmpty ==
    user = NoUser => expenses = <<>>

\* C25: at most one snapshot subscription is active and it is the one
\* opened for the signed-in user: a sign-out, or the sign-in of another
\* user, ends the subscription of the previous identity.
C25_OneSubscription ==
    /\ Cardinality(listeners) <= 1
    /\ \A uid \in listeners : uid = user

\* C26: an expense is named for editing exactly while the edit dialog is
\* open, so that a submission while the dialog is closed creates a record.
C26_EditIdIffDialogOpen ==
    (editId # NoEdit) <=> editOpen

\* the contents of a record apart from its id
ContentsOf(d) == [k \in DOMAIN d \ {"id"} |-> d[k]]

\* a creation sent by the form is awaiting its outcome
AddPending == \E k \in 1..Len(pending) : pending[k].op = "add" /\ pending[k].ok

\* C27: one filled-in add form yields at most one record, and the reset of
\* a completed write clears nothing entered after the submission: a step
\* taken while a creation is pending adds no record with the contents of a
\* record already stored, and the step that completes a creation leaves the
\* fields alone when an edit was opened after the submission.
C27_OneFormOneRecord ==
    [][ /\ AddPending =>
              \A d2 \in store' :
                  d2.id \notin IdsOf(store) =>
                      \A d \in store : ContentsOf(d) # ContentsOf(d2)
        /\ ( /\ pending # <<>> /\ pending' = Tail(pending)
             /\ Head(pending).op = "add"
             /\ editOpen ) =>
              UNCHANGED <<amount, description, date, selectedCategories>>
      ]_vars

\* the write that completes in this step
Completes == pending # <<>> /\ pending' = Tail(pending)

\* C28: a refused write of handleAddExpense changes no record and, when it
\* completes, leaves amount, description, date, selectedCategories, editId
\* and editOpen as they are; an applied write, when it completes, empties
\* amount, description, date and selectedCategories and, for an update,
\* clears editId and closes the edit dialog; while no user is authenticated
\* handleAddExpense can do nothing and no write is sent.
C28_WriteOutcome ==
    /\ [](currentUser = NoUser => ~ENABLED handleAddExpense)
    /\ [][ /\ (Completes /\ ~Head(pending).ok) =>
                 UNCHANGED <<amount, description, date, selectedCategories,
                             editId, editOpen>>
           /\ (Completes /\ Head(pending).ok) =>
                 /\ amount' = <<>>
                 /\ description' = ""
                 /\ date' = EmptyDate
                 /\ selectedCategories' = <<>>
                 /\ Head(pending).op = "update" =>
                       (editId' = NoEdit /\ ~editOpen')
           /\ (Len(pending') > Len(pending) /\ ~pending'[Len(pending')].ok) =>
                 store' = store
           /\ currentUser = NoUser => (writes' = writes /\ store' = store)
         ]_vars

C28_Witness ==
    /\ writes > 0
    /\ pending = <<>>
    /\ store = {}
    /\ amount = <<"5", "0">>
    /\ description # ""
    /\ selectedCategories # <<>>

\* C29: every label selected in the filter is one of the labels of the
\* current expenses, also after an update of the list that removes the last
\* expense carrying a selected label.
C29_SelectionAvailable ==
    Range(selectedFilterCategories) \subseteq Range(availableCategories)

\* C30: the delete dialog is open exactly while an expense is named for
\* deletion.
C30_DialogIffExpenseNamed ==
    deleteDialogOpen <=> (expenseToDelete # NoExpense)

C30_Witness ==
    /\ deleteDialogOpen
    /\ expenseToDelete.id = 2
    /\ IdsOf(store) = {2}
    /\ deleteGesture = [kind |-> "click", id |-> 2]

====
